---- MODULE Spec2Model ----
(***************************************************************************)
(* The OpenAI chat-completions parsers of openai.parser.ts as state        *)
(* machines.  The streaming chunk parser                                   *)
(* (createOpenAIChatCompletionsChunkParser): one parser instance (its two  *)
(* latches and its accumulator), the sink it calls, and one action that    *)
(* delivers one payload to the parser function and runs it to its return   *)
(* or to its throw.  The non-streaming parser                              *)
(* (createOpenAIChatCompletionsParserNS): one call with the payload of the *)
(* whole response.                                                         *)
(*                                                                         *)
(* Strings are sequences of opaque tokens, so that '' is <<>> and + is \o. *)
(* Every JSON value is tagged with its JavaScript type.                    *)
(***************************************************************************)
EXTENDS Integers, Sequences, FiniteSets, TLC

VARIABLES
    hasBegun,      \* latch: the model name has been sent to the sink
    hasWarned,     \* latch: a provider warning has been logged
    accumulator,   \* [content, tool_calls]: the message rebuilt so far
    nextId,        \* the identifier service: ids it has generated so far
    eventData,     \* the payload the last call was given
    chunk,         \* the last chunk a call has decoded from its payload
    exit,          \* where the last call left the function
    out,           \* the sink calls the last call made, in order
    logged,        \* whether the last call logged a warning
    warningsLogged, \* the log: how many warnings the session has logged
    told,          \* sink side: what it has been told of each tool call, by index
    terminated,    \* sink side: it has received setDialectTerminatingIssue
    n,             \* calls made in this session
    modelNames,    \* sink side: every name setModelName received, in order
    firstModel,    \* history: the model field of the session's first chunk
    modelFields    \* history: what the chunks' model fields were so far

vars == <<hasBegun, hasWarned, accumulator, nextId, eventData, chunk, exit, out, logged,
          warningsLogged, told, terminated, n, modelNames, firstModel, modelFields>>

\* The longest session explored, in chunks.
MaxChunks == 2

-----------------------------------------------------------------------------
(* JSON values as the parser sees them after decoding *)

Absent == [k |-> "undefined"]
Null == [k |-> "null"]
Str(s) == [k |-> "string", s |-> s]
Num(v) == [k |-> "number", v |-> v]

IsAbsent(v) == v.k = "undefined"

\* JavaScript truthiness: '' and 0 are falsy like undefined and null.
Truthy(v) ==
    CASE v.k = "string" -> v.s # <<>>
      [] v.k = "number" -> v.v # 0
      [] v.k = "object" -> TRUE
      [] OTHER -> FALSE

Usage(p, c) == [k |-> "object", prompt_tokens |-> p, completion_tokens |-> c]

\* completion_time is carried in milliseconds (the wire has seconds).
GroqUsage(p, c, ms) ==
    [k |-> "object", prompt_tokens |-> p, completion_tokens |-> c, completion_time |-> ms]

XGroq(u) == [k |-> "object", usage |-> u]

Delta(content, toolCalls) == [k |-> "object", content |-> content, tool_calls |-> toolCalls]

Choice(index, delta) == [index |-> index, delta |-> delta]

Fn(name, arguments) == [name |-> name, arguments |-> arguments]

DeltaToolCall(index, id, type, function) ==
    [index |-> index, id |-> id, type |-> type, function |-> function]

Chunk(model, error, warning, id, object, usage, x_groq, choices) ==
    [model |-> model, error |-> error, warning |-> warning, id |-> id, object |-> object,
     usage |-> usage, x_groq |-> x_groq, choices |-> choices]

-----------------------------------------------------------------------------
(* The sink (IPartTransmitter): each call is recorded as it is made *)

SetModelName(name) == [op |-> "setModelName", name |-> name]

SetDialectTerminatingIssue == [op |-> "setDialectTerminatingIssue"]

SetCounters(chatIn, chatOut) == [op |-> "setCounters", chatIn |-> chatIn, chatOut |-> chatOut]

SetCountersGroq(chatIn, chatOut, chatOutRate, chatTimeInner) ==
    [op |-> "setCounters", chatIn |-> chatIn, chatOut |-> chatOut,
     chatOutRate |-> chatOutRate, chatTimeInner |-> chatTimeInner]

AppendText(text) == [op |-> "appendText", text |-> text]

StartFunctionToolCall(id, name, args) ==
    [op |-> "startFunctionToolCall", id |-> id, name |-> name, mode |-> "incr_str", args |-> args]

AppendFunctionToolCallArgsIStr(id, args) ==
    [op |-> "appendFunctionToolCallArgsIStr", id |-> id, args |-> args]

Emit(s, call) == [s EXCEPT !.out = Append(@, call)]

\* A call the parser makes for the tool call at tcIndex: slots keeps, for the
\* tool-call calls of out in order, the index each was made for.
EmitFor(s, tcIndex, call) == [Emit(s, call) EXCEPT !.slots = Append(@, tcIndex)]

Leave(s, where) == [s EXCEPT !.exit = where]

\* The exits that are a throw.
Throws ==
    {"throw: malformed event data", "throw: invalid chunk", "throw: invalid response",
     "throw: expected 1 completion", "throw: expected completion index 0",
     "throw: server response missing content", "throw: unexpected tool_call type",
     "throw: unexpected tool_call id change", "throw: unexpected tool_call name change"}

-----------------------------------------------------------------------------
(* accumulator.tool_calls: a JavaScript array, possibly with holes *)

\* a[i]: undefined beyond the length and in a hole.
At(a, i) == IF i < Len(a) THEN a[i + 1] ELSE Absent

\* a[i] = v: grows the array to i + 1, leaving holes below i.
Store(a, i, v) ==
    [j \in 1..(IF i + 1 > Len(a) THEN i + 1 ELSE Len(a)) |->
        IF j = i + 1 THEN v ELSE IF j <= Len(a) THEN a[j] ELSE Absent]

ToolCall(id, name, arguments) ==
    [k |-> "object", id |-> id, type |-> "function",
     function |-> [name |-> name, arguments |-> arguments]]

\* The indices that hold an entry.
Entries(a) == {i \in 0..(Len(a) - 1) : Truthy(At(a, i))}

\* serverSideId('aix-tool-call-id'): a fresh id per call, in a namespace of its own.
ServerSideId(k) == <<"aix-tool-call-id">> \o [i \in 1..k |-> "#"]

\* v || '' for an optional string.
OrEmpty(v) == IF Truthy(v) THEN v.s ELSE <<>>

-----------------------------------------------------------------------------
(* The parser function, step by step.  s is the running state of one call:   *)
(* [hasBegun, hasWarned, accumulator, nextId, out, logged, exit].            *)

ReportsEveryModel(s, json) == Truthy(json.model)

ReportsModel(s, json) == ~s.hasBegun /\ Truthy(json.model)

ModelStep(s, json) ==
    IF ReportsModel(s, json)
    THEN Emit([s EXCEPT !.hasBegun = TRUE], SetModelName(json.model.s))
    ELSE s

ErrorStep(s, json) == Leave(Emit(s, SetDialectTerminatingIssue), "return: terminating issue")

WarningStepUnlatched(s, json) ==
    IF Truthy(json.warning)
    THEN [s EXCEPT !.hasWarned = TRUE, !.logged = TRUE]
    ELSE s

WarningStep(s, json) ==
    IF Truthy(json.warning) /\ ~s.hasWarned
    THEN [s EXCEPT !.hasWarned = TRUE, !.logged = TRUE]
    ELSE s

IsSentinel(json) ==
    json.id = Str(<<>>) /\ json.object = Str(<<>>) /\ json.model = Str(<<>>)

ChatInAsSent(usage) == usage.prompt_tokens

\* usage.prompt_tokens || -1
ChatIn(usage) == IF Truthy(usage.prompt_tokens) THEN usage.prompt_tokens ELSE Num(-1)

ReportsUsage(json) == Truthy(json.usage) /\ ~IsAbsent(json.usage.completion_tokens)

UsageStep(s, json) ==
    IF ReportsUsage(json)
    THEN Emit(s, SetCounters(ChatIn(json.usage), json.usage.completion_tokens))
    ELSE s

StopsAfterCountedUsage(json) == ReportsUsage(json) /\ Len(json.choices) = 0

StopsAfterUsage(json) == Truthy(json.usage) /\ Len(json.choices) = 0

HasGroqUsage(json) == Truthy(json.x_groq) /\ Truthy(json.x_groq.usage)

\* Math.round((completion_tokens / completion_time) * 100) / 100, in hundredths,
\* with completion_time in milliseconds; undefined when either is 0.
ChatOutRate(u) ==
    IF Truthy(u.completion_tokens) /\ Truthy(u.completion_time)
    THEN Num((2 * 100000 * u.completion_tokens.v + u.completion_time.v)
             \div (2 * u.completion_time.v))
    ELSE Absent

GroqStepUnlessPrimary(s, json) ==
    IF HasGroqUsage(json) /\ ~Truthy(json.usage)
    THEN LET u == json.x_groq.usage
         IN  Emit(s, SetCountersGroq(u.prompt_tokens, u.completion_tokens,
                                     ChatOutRate(u), u.completion_time))
    ELSE s

GroqStep(s, json) ==
    IF HasGroqUsage(json)
    THEN LET u == json.x_groq.usage
         IN  Emit(s, SetCountersGroq(u.prompt_tokens, u.completion_tokens,
                                     ChatOutRate(u), u.completion_time))
    ELSE s

ChoiceCountOk(json) == Len(json.choices) = 1

ChoiceIndexOk(index) == index = Num(0) \/ IsAbsent(index)

ReplacedContent(content, fragment) == fragment

\* accumulator.content = (accumulator.content || '') + delta.content
AppendedContent(content, fragment) == OrEmpty(content) \o fragment

TextStepSkippingEmpty(s, delta) ==
    IF Truthy(delta.content)
    THEN Emit([s EXCEPT !.accumulator.content =
                          Str(OrEmpty(s.accumulator.content) \o delta.content.s)],
              AppendText(delta.content.s))
    ELSE s

\* The schema admits a string, null or nothing as delta.content, so the throw
\* of line 126 (another type of content) is never taken.
TextStep(s, delta) ==
    IF delta.content.k = "string"
    THEN Emit([s EXCEPT !.accumulator.content =
                          Str(AppendedContent(s.accumulator.content, delta.content.s))],
              AppendText(delta.content.s))
    ELSE s

ToolTypeOk(type) == IsAbsent(type) \/ type = Str(<<"function">>)

TcIndexOfLast(s, deltaToolCall) ==
    IF IsAbsent(deltaToolCall.index)
    THEN IF Len(s.accumulator.tool_calls) = 0 THEN 0 ELSE Len(s.accumulator.tool_calls) - 1
    ELSE deltaToolCall.index.v

\* deltaToolCall.index ?? accumulator.tool_calls.length
TcIndex(s, deltaToolCall) ==
    IF IsAbsent(deltaToolCall.index)
    THEN Len(s.accumulator.tool_calls)
    ELSE deltaToolCall.index.v

CreateToolCall(s, tcIndex, deltaToolCall) ==
    LET generated == ~Truthy(deltaToolCall.id)
        created == ToolCall(IF generated THEN ServerSideId(s.nextId) ELSE deltaToolCall.id.s,
                            OrEmpty(deltaToolCall.function.name),
                            OrEmpty(deltaToolCall.function.arguments))
    IN  EmitFor([s EXCEPT !.accumulator.tool_calls = Store(@, tcIndex, created),
                          !.nextId = IF generated THEN @ + 1 ELSE @],
                tcIndex,
                StartFunctionToolCall(created.id, created.function.name,
                                      created.function.arguments))

IdNeverChanges(deltaToolCall, accumulatedToolCall) == FALSE

IdChanges(deltaToolCall, accumulatedToolCall) ==
    Truthy(deltaToolCall.id) /\ deltaToolCall.id.s # accumulatedToolCall.id

NameChanges(deltaToolCall) == Truthy(deltaToolCall.function.name)

PrependedArguments(arguments, fragment) == fragment \o arguments

\* accumulatedToolCall.function.arguments += deltaToolCall.function.arguments
AppendedArguments(arguments, fragment) == arguments \o fragment

UpdateArgumentsSilently(s, tcIndex, deltaToolCall) ==
    IF Truthy(deltaToolCall.function.arguments)
    THEN [s EXCEPT !.accumulator.tool_calls[tcIndex + 1].function.arguments =
                       AppendedArguments(@, deltaToolCall.function.arguments.s)]
    ELSE s

UpdateArguments(s, tcIndex, deltaToolCall) ==
    IF Truthy(deltaToolCall.function.arguments)
    THEN LET fragment == deltaToolCall.function.arguments.s
             accumulatedToolCall == At(s.accumulator.tool_calls, tcIndex)
         IN  EmitFor([s EXCEPT !.accumulator.tool_calls[tcIndex + 1].function.arguments =
                                   AppendedArguments(@, fragment)],
                     tcIndex,
                     AppendFunctionToolCallArgsIStr(accumulatedToolCall.id, fragment))
    ELSE s

IsNewOrIdentified(s, tcIndex, deltaToolCall) ==
    ~Truthy(At(s.accumulator.tool_calls, tcIndex)) \/ Truthy(deltaToolCall.id)

\* !accumulator.tool_calls[tcIndex]
IsNewToolCall(s, tcIndex, deltaToolCall) == ~Truthy(At(s.accumulator.tool_calls, tcIndex))

NeverBreaks == FALSE

\* After an entry has created a tool call, the loop over tool_calls ends (break).
BreaksAfterCreation == TRUE

RECURSIVE ToolCallsLoop(_, _, _)
ToolCallsLoop(s, toolCalls, i) ==
    IF i > Len(toolCalls) THEN s
    ELSE LET deltaToolCall == toolCalls[i]
             tcIndex == TcIndex(s, deltaToolCall)
             accumulatedToolCall == At(s.accumulator.tool_calls, tcIndex)
         IN  IF ~ToolTypeOk(deltaToolCall.type)
             THEN Leave(s, "throw: unexpected tool_call type")
             ELSE IF IsNewToolCall(s, tcIndex, deltaToolCall)
             THEN IF BreaksAfterCreation
                  THEN CreateToolCall(s, tcIndex, deltaToolCall)
                  ELSE ToolCallsLoop(CreateToolCall(s, tcIndex, deltaToolCall), toolCalls, i + 1)
             ELSE IF IdChanges(deltaToolCall, accumulatedToolCall)
             THEN Leave(s, "throw: unexpected tool_call id change")
             ELSE IF NameChanges(deltaToolCall)
             THEN Leave(s, "throw: unexpected tool_call name change")
             ELSE ToolCallsLoop(UpdateArguments(s, tcIndex, deltaToolCall), toolCalls, i + 1)

ChoiceStep(s, choice) ==
    IF ~ChoiceIndexOk(choice.index)
    THEN Leave(s, "throw: expected completion index 0")
    ELSE IF ~Truthy(choice.delta)
    THEN Leave(s, "throw: server response missing content")
    ELSE LET done == ToolCallsLoop(TextStep(s, choice.delta), choice.delta.tool_calls, 1)
         IN  IF done.exit \in Throws THEN done ELSE Leave(done, "end")

ParseWarningFirst(s0, json) ==
    LET s1 == WarningStep(ModelStep(s0, json), json)
    IN  IF Truthy(json.error) THEN ErrorStep(s1, json)
        ELSE IF IsSentinel(json) THEN Leave(s1, "return: sentinel")
        ELSE LET s3 == UsageStep(s1, json)
             IN  IF StopsAfterUsage(json) THEN Leave(s3, "return: usage only")
                 ELSE LET s4 == GroqStep(s3, json)
                      IN  IF ~ChoiceCountOk(json)
                          THEN Leave(s4, "throw: expected 1 completion")
                          ELSE ChoiceStep(s4, json.choices[1])

ParseCountingFirst(s0, json) ==
    LET s1 == ModelStep(s0, json)
    IN  IF Truthy(json.error) THEN ErrorStep(s1, json)
        ELSE LET s3 == UsageStep(WarningStep(s1, json), json)
             IN  IF IsSentinel(json) THEN Leave(s3, "return: sentinel")
                 ELSE IF StopsAfterUsage(json) THEN Leave(s3, "return: usage only")
                 ELSE LET s4 == GroqStep(s3, json)
                      IN  IF ~ChoiceCountOk(json)
                          THEN Leave(s4, "throw: expected 1 completion")
                          ELSE ChoiceStep(s4, json.choices[1])

Parse(s0, json) ==
    LET s1 == ModelStep(s0, json)
    IN  IF Truthy(json.error) THEN ErrorStep(s1, json)
        ELSE LET s2 == WarningStep(s1, json)
             IN  IF IsSentinel(json) THEN Leave(s2, "return: sentinel")
                 ELSE LET s3 == UsageStep(s2, json)
                      IN  IF StopsAfterUsage(json) THEN Leave(s3, "return: usage only")
                          ELSE LET s4 == GroqStep(s3, json)
                               IN  IF ~ChoiceCountOk(json)
                                   THEN Leave(s4, "throw: expected 1 completion")
                                   ELSE ChoiceStep(s4, json.choices[1])

-----------------------------------------------------------------------------
(* The payload of an event, and its decoding *)

\* A payload that is no JSON text.
Garbled == [text |-> "garbled"]

\* The JSON text of the value v.
Json(v) == [text |-> "json", value |-> v]

\* JSON.parse(eventData) returns (the value the text denotes) and does not throw.
IsJson(data) == data.text = "json"

OptionalString(v) == v.k \in {"undefined", "string"}

\* ChunkResponse_schema.parse(parsedData) returns and does not throw: choices is
\* there, and what is given of the identity, of each choice's index and of its
\* delta's content has the type the wire shape gives it.
ChunkResponse_schema(parsedData) ==
    /\ "choices" \in DOMAIN parsedData
    /\ OptionalString(parsedData.model)
    /\ OptionalString(parsedData.id)
    /\ OptionalString(parsedData.object)
    /\ \A i \in 1..Len(parsedData.choices) :
          LET choice == parsedData.choices[i]
          IN  /\ choice.index.k \in {"undefined", "number"}
              /\ choice.delta.k \in {"undefined", "object"}
              /\ Truthy(choice.delta) => choice.delta.content.k \in {"undefined", "null", "string"}

ParseEventModelFirst(s0, data) ==
    IF ~IsJson(data) THEN Leave(s0, "throw: malformed event data")
    ELSE LET parsedData == data.value
             s1 == IF parsedData.model.k = "string" THEN ModelStep(s0, parsedData) ELSE s0
         IN  IF ~ChunkResponse_schema(parsedData)
             THEN Leave(s1, "throw: invalid chunk")
             ELSE Parse(s1, parsedData)

\* The parser function: both decodings come first, and each may throw.
ParseEvent(s0, data) ==
    IF ~IsJson(data) THEN Leave(s0, "throw: malformed event data")
    ELSE LET parsedData == data.value
         IN  IF ~ChunkResponse_schema(parsedData)
             THEN Leave(s0, "throw: invalid chunk")
             ELSE Parse(s0, parsedData)

-----------------------------------------------------------------------------
(* The chunks a provider may send: each family varies some fields and keeps  *)
(* the others at the values of an ordinary chunk.                             *)

Text(token) == Str(<<token>>)

Function == Text("function")

\* The tool-call indices a provider uses.
ToolIndices == {Absent, Num(0), Num(1)}

UsageBlocks ==
    {Usage(Num(10), Num(20)), Usage(Num(0), Num(20)), Usage(Absent, Num(20)),
     Usage(Num(10), Absent), Usage(Num(10), Num(0)), Usage(Absent, Absent)}

GroqBlock == XGroq(GroqUsage(Num(7), Num(3), Num(700)))

Issue == [k |-> "object", message |-> "rate limited"]

Warning == [k |-> "object", message |-> "deprecated"]

TextChoice(content) == <<Choice(Num(0), Delta(content, <<>>))>>

ToolChoice(toolCalls) == <<Choice(Num(0), Delta(Absent, toolCalls))>>

TwoChoices == TextChoice(Text("a")) \o TextChoice(Text("b"))

TextChoices ==
    {<<Choice(i, Delta(c, <<>>))>> :
        i \in {Num(0), Absent}, c \in {Absent, Null, Str(<<>>), Text("a"), Text("b")}}
    \cup {<<Choice(Num(1), Delta(Text("a"), <<>>))>>, <<Choice(Num(0), Absent)>>,
          <<>>, TwoChoices}

\* First deltas of a tool call: id, name and a seed of the arguments.
Creations ==
    {DeltaToolCall(i, id, Function, Fn(Text("f"), seed)) :
        i \in ToolIndices, id \in {Absent, Text("t1"), Text("t2")},
        seed \in {Str(<<>>), Text("x")}}

\* Later deltas of a tool call: a fragment of the arguments.
Fragments ==
    {DeltaToolCall(i, Absent, Absent, Fn(Absent, fragment)) :
        i \in ToolIndices, fragment \in {Text("x"), Text("y")}}

SameId == DeltaToolCall(Num(0), Text("t1"), Absent, Fn(Absent, Text("y")))

OtherId == DeltaToolCall(Num(0), Text("t2"), Absent, Fn(Absent, Text("y")))

OtherName == DeltaToolCall(Num(0), Absent, Absent, Fn(Text("g"), Text("y")))

OtherType == DeltaToolCall(Num(0), Absent, Text("retrieval"), Fn(Absent, Text("x")))

AllEmpty == DeltaToolCall(Num(0), Str(<<>>), Function, Fn(Str(<<>>), Str(<<>>)))

\* A first delta of another type that carries no index.
OtherTypeNoIndex == DeltaToolCall(Absent, Text("t1"), Text("retrieval"), Fn(Text("f"), Str(<<>>)))

FirstOfTwo ==
    {DeltaToolCall(Num(0), Absent, Absent, Fn(Absent, Text("x"))),
     DeltaToolCall(Num(1), Absent, Absent, Fn(Absent, Text("y"))),
     DeltaToolCall(Num(1), Text("t2"), Function, Fn(Text("f"), Str(<<>>))),
     DeltaToolCall(Num(0), Text("t1"), Function, Fn(Text("f"), Text("x"))),
     DeltaToolCall(Absent, Absent, Function, Fn(Text("f"), Str(<<>>)))}

SecondOfTwo ==
    {DeltaToolCall(Num(0), Absent, Absent, Fn(Absent, Text("x"))),
     DeltaToolCall(Num(0), Absent, Absent, Fn(Absent, Text("y"))),
     DeltaToolCall(Num(1), Absent, Absent, Fn(Absent, Text("y"))),
     DeltaToolCall(Absent, Absent, Absent, Fn(Absent, Text("y"))),
     DeltaToolCall(Num(1), Text("t2"), Function, Fn(Text("f"), Str(<<>>))),
     OtherId, OtherName, OtherType}

ToolCallLists ==
    {<<e>> : e \in Creations \cup Fragments
                   \cup {SameId, OtherId, OtherName, OtherType, AllEmpty, OtherTypeNoIndex}}
    \cup {<<e1, e2>> : e1 \in FirstOfTwo, e2 \in SecondOfTwo}

Ordinary(choices) ==
    Chunk(Absent, Absent, Absent, Text("c1"), Text("chat.completion.chunk"), Absent, Absent,
          choices)

PlainChunks ==
    {Ordinary(choices) : choices \in TextChoices}
    \cup {Ordinary(ToolChoice(l)) : l \in ToolCallLists}
    \cup {Ordinary(<<Choice(Num(0), Delta(Text("a"), <<e>>))>>) : e \in {SameId, OtherId}}

ModelChunks ==
    {[Ordinary(choices) EXCEPT !.model = m, !.id = io[1], !.object = io[2]] :
        m \in {Str(<<>>), Text("m1"), Text("m2")},
        io \in {<<Text("c1"), Text("chat.completion.chunk")>>,
                <<Str(<<>>), Text("chat.completion.chunk")>>,
                <<Str(<<>>), Str(<<>>)>>},
        choices \in {<<>>, TextChoice(Text("a"))}}

UsageChunks ==
    {[Ordinary(choices) EXCEPT !.usage = u, !.x_groq = g] :
        u \in UsageBlocks \cup {Absent}, g \in {Absent, GroqBlock},
        choices \in {<<>>, TextChoice(Text("a")), TwoChoices}}

Busy ==
    {<<>>, TextChoice(Text("a")), TwoChoices,
     ToolChoice(<<DeltaToolCall(Num(0), Text("t1"), Function, Fn(Text("f"), Text("x")))>>),
     ToolChoice(<<DeltaToolCall(Num(0), Absent, Absent, Fn(Absent, Text("x"))), OtherId>>)}

ErrorChunks ==
    {[Ordinary(choices) EXCEPT !.error = Issue, !.warning = w, !.usage = ug[1], !.x_groq = ug[2]] :
        w \in {Absent, Warning},
        ug \in {<<Absent, Absent>>, <<Usage(Num(10), Num(20)), GroqBlock>>},
        choices \in Busy}
    \cup {[Ordinary(<<>>) EXCEPT !.error = Issue, !.model = Text("m1")]}

WarningChunks ==
    {[Ordinary(choices) EXCEPT !.warning = Warning] : choices \in Busy}

SentinelChunks ==
    {Chunk(Str(<<>>), Absent, w, Str(<<>>), Str(<<>>), ug[1], ug[2], choices) :
        w \in {Absent, Warning},
        ug \in {<<Absent, Absent>>, <<Usage(Num(10), Num(20)), Absent>>, <<Absent, GroqBlock>>},
        choices \in Busy}

Chunks ==
    PlainChunks \cup ModelChunks \cup UsageChunks \cup ErrorChunks \cup WarningChunks
    \cup SentinelChunks

\* JSON values that are no chunk: no choices, a model or a content that is a number.
NoChunks ==
    {[model |-> Text("m1"), id |-> Text("c1"), object |-> Text("chat.completion.chunk"),
      warning |-> Warning],
     [Ordinary(TextChoice(Text("a"))) EXCEPT !.model = Num(3)],
     [Ordinary(<<Choice(Num(0), Delta(Num(1), <<>>))>>) EXCEPT !.model = Text("m1"),
                                                            !.warning = Warning],
     [Ordinary(<<Choice(Text("0"), Delta(Text("a"), <<>>))>>) EXCEPT
        !.usage = Usage(Num(10), Num(20))]}

\* The payloads a transport may hand over.
Events == {Garbled} \cup {Json(v) : v \in NoChunks \cup Chunks}

-----------------------------------------------------------------------------
(* The session *)

\* What the model fields of the chunks so far have been: all non-empty strings,
\* all present (some of them ''), or some absent.
ModelFieldsAfter(before, model) ==
    IF IsAbsent(model) \/ before = "some absent" THEN "some absent"
    ELSE IF ~Truthy(model) \/ before = "all present" THEN "all present"
    ELSE "all non-empty"

ModelNamesIn(calls) ==
    LET named == SelectSeq(calls, LAMBDA c : c.op = "setModelName")
    IN  [i \in 1..Len(named) |-> named[i].name]

Init ==
    /\ hasBegun = FALSE
    /\ hasWarned = FALSE
    /\ accumulator = [content |-> Null, tool_calls |-> <<>>]
    /\ nextId = 0
    /\ eventData = Json(Ordinary(<<>>))
    /\ chunk = Ordinary(<<>>)
    /\ exit = "none"
    /\ out = <<>>
    /\ logged = FALSE
    /\ warningsLogged = 0
    /\ told = <<>>
    /\ terminated = FALSE
    /\ n = 0
    /\ modelNames = <<>>
    /\ firstModel = Absent
    /\ modelFields = "all non-empty"

\* The parser's state as a call starts.
Running ==
    [hasBegun |-> hasBegun, hasWarned |-> hasWarned, accumulator |-> accumulator,
     nextId |-> nextId, out |-> <<>>, slots |-> <<>>, logged |-> FALSE, exit |-> "running"]

\* What the sink has been told of a tool call: the id or ids it was called with,
\* and the arguments it has been given, piece after piece.
SinkToolCall(ids, args) == [k |-> "object", ids |-> ids, args |-> args]

\* The sink's tool calls, by the index each call was made for, after the
\* tool-call calls calls[j], calls[j + 1], ...: startFunctionToolCall begins one
\* with its initial arguments, appendFunctionToolCallArgsIStr adds its fragment.
RECURSIVE Told(_, _, _, _)
Told(before, calls, slots, j) ==
    IF j > Len(calls) THEN before
    ELSE LET call == calls[j]
             was == At(before, slots[j])
         IN  Told(Store(before, slots[j],
                        IF call.op = "startFunctionToolCall" \/ ~Truthy(was)
                        THEN SinkToolCall({call.id}, call.args)
                        ELSE SinkToolCall(was.ids \cup {call.id}, was.args \o call.args)),
                  calls, slots, j + 1)

\* The payload decodes to a chunk.
Decodes(data) == IsJson(data) /\ ChunkResponse_schema(data.value)

\* One call of the parser function with the payload data.
Call(data) ==
    \E s \in {ParseEvent(Running, data)} :
        /\ hasBegun' = s.hasBegun
        /\ hasWarned' = s.hasWarned
        /\ accumulator' = s.accumulator
        /\ nextId' = s.nextId
        /\ eventData' = data
        /\ exit' = s.exit
        /\ out' = s.out
        /\ logged' = s.logged
        /\ warningsLogged' = IF s.logged THEN warningsLogged + 1 ELSE warningsLogged
        /\ told' = Told(told, SelectSeq(s.out, LAMBDA c : c.op \in {"startFunctionToolCall",
                                   "appendFunctionToolCallArgsIStr"}), s.slots, 1)
        /\ terminated' = (terminated \/ \E c \in 1..Len(s.out) :
                                           s.out[c].op = "setDialectTerminatingIssue")
        /\ n' = n + 1
        /\ modelNames' = modelNames \o ModelNamesIn(s.out)
        /\ IF Decodes(data)
           THEN /\ chunk' = data.value
                /\ firstModel' = IF n = 0 THEN data.value.model ELSE firstModel
                /\ modelFields' = ModelFieldsAfter(modelFields, data.value.model)
           ELSE UNCHANGED <<chunk, firstModel, modelFields>>

\* One call of the parser function with a payload that decodes to the chunk json.
ParseChunk(json) == Call(Json(json))

\* The transport delivers the next chunk of the session.
Deliver == n < MaxChunks /\ \E json \in Chunks : ParseChunk(json)

Next == Deliver

\* The sessions in which every payload decodes to a chunk.
Spec == Init /\ [][Next]_vars

\* The transport delivers the next payload of the session, whatever it is.
DeliverEvent == n < MaxChunks /\ \E data \in Events : Call(data)

NextEvents == DeliverEvent

\* The sessions with any payloads.
SpecEvents == Init /\ [][NextEvents]_vars

-----------------------------------------------------------------------------
(* The non-streaming parser (createOpenAIChatCompletionsParserNS): a function  *)
(* without state, called once with the payload of the whole response.         *)

Message(content, toolCalls) == [k |-> "object", content |-> content, tool_calls |-> toolCalls]

ResponseChoice(index, message) == [index |-> index, message |-> message]

MessageToolCall(id, type, function) == [id |-> id, type |-> type, function |-> function]

Response(model, error, warning, usage, choices) ==
    [model |-> model, error |-> error, warning |-> warning, usage |-> usage,
     choices |-> choices]

EndMessagePart == [op |-> "endMessagePart"]

\* Response_schema.parse(...) returns and does not throw: choices is there.
Response_schema(parsedData) == "choices" \in DOMAIN parsedData

\* console.log of the response's error or warning.
Log(s, what) == [s EXCEPT !.logs = Append(@, what)]

NeverMistral(toolCall) == FALSE

\* const mayBeMistral = toolCall.type === undefined
MayBeMistral(toolCall) == IsAbsent(toolCall.type)

RECURSIVE MessageToolCalls(_, _, _)
MessageToolCalls(s, toolCalls, i) ==
    IF i > Len(toolCalls) THEN s
    ELSE LET toolCall == toolCalls[i]
         IN  IF toolCall.type # Str(<<"function">>) /\ ~MayBeMistral(toolCall)
             THEN Leave(s, "throw: unexpected tool_call type")
             ELSE MessageToolCalls(
                      Emit(Emit(s, StartFunctionToolCall(toolCall.id.s, toolCall.function.name.s,
                                                         toolCall.function.arguments.s)),
                           EndMessagePart),
                      toolCalls, i + 1)

\* The schema admits a string, null or nothing as message.content, so the throw
\* of line 226 (another type of content) is never taken.
MessageText(s, message) ==
    IF message.content.k = "string" /\ Truthy(message.content)
    THEN Emit(s, AppendText(message.content.s))
    ELSE s

ResponseChoiceStep(s, choice) ==
    IF choice.index # Num(0)
    THEN Leave(s, "throw: expected completion index 0")
    ELSE IF ~Truthy(choice.message)
    THEN Leave(s, "throw: server response missing content")
    ELSE LET done == MessageToolCalls(MessageText(s, choice.message),
                                      choice.message.tool_calls, 1)
         IN  IF done.exit \in Throws THEN done ELSE Leave(done, "end")

ParseNS(s0, data) ==
    IF ~IsJson(data) THEN Leave(s0, "throw: malformed event data")
    ELSE IF ~Response_schema(data.value) THEN Leave(s0, "throw: invalid response")
    ELSE LET json == data.value
             s1 == IF Truthy(json.error) THEN Log(s0, "error") ELSE s0
             s2 == IF Truthy(json.warning) THEN Log(s1, "warning") ELSE s1
             s3 == IF Truthy(json.model) THEN Emit(s2, SetModelName(json.model.s)) ELSE s2
             s4 == IF Truthy(json.usage)
                   THEN Emit(s3, SetCounters(json.usage.prompt_tokens,
                                             json.usage.completion_tokens))
                   ELSE s3
         IN  IF Len(json.choices) # 1
             THEN Leave(s4, "throw: expected 1 completion")
             ELSE ResponseChoiceStep(s4, json.choices[1])

\* The tool calls a response's message may list: typed, untyped (Mistral), of
\* another type, and one with an empty id and empty arguments.
MessageToolCallForms ==
    {MessageToolCall(Text("t1"), Function, Fn(Text("f"), Text("x"))),
     MessageToolCall(Text("t2"), Absent, Fn(Text("g"), Text("y"))),
     MessageToolCall(Text("t3"), Text("retrieval"), Fn(Text("f"), Text("x"))),
     MessageToolCall(Str(<<>>), Function, Fn(Text("f"), Str(<<>>)))}

MessageToolCallLists ==
    {<<>>}
    \cup {<<a>> : a \in MessageToolCallForms}
    \cup {<<a, b>> : a, b \in MessageToolCallForms}
    \cup {<<a, b, a>> : a, b \in MessageToolCallForms}

Plain(choices) == Response(Text("m1"), Absent, Absent, Absent, choices)

Responses ==
    {Plain(<<ResponseChoice(Num(0), Message(content, toolCalls))>>) :
        content \in {Absent, Null, Str(<<>>), Text("a")}, toolCalls \in MessageToolCallLists}
    \cup {Plain(<<ResponseChoice(index, Message(Text("a"), <<a>>))>>) :
            index \in {Absent, Num(1)}, a \in MessageToolCallForms}
    \cup {Response(model, error, warning, usage,
                   <<ResponseChoice(Num(0), Message(Text("a"), <<a>>))>>) :
            model \in {Absent, Str(<<>>)}, error \in {Absent, Issue},
            warning \in {Absent, Warning}, usage \in {Absent, Usage(Num(0), Num(20))},
            a \in MessageToolCallForms}
    \cup {Plain(<<>>), Plain(<<ResponseChoice(Num(0), Absent)>>),
          Plain(<<ResponseChoice(Num(0), Message(Text("a"), <<>>)),
                  ResponseChoice(Num(1), Message(Text("b"), <<>>))>>)}

ResponseEvents ==
    {Garbled, Json([model |-> Text("m1")])} \cup {Json(json) : json \in Responses}

\* The one call of the function: it leaves the streaming parser's state alone.
CallNS(data) ==
    \E s \in {ParseNS([out |-> <<>>, logs |-> <<>>, exit |-> "running"], data)} :
        /\ eventData' = data
        /\ exit' = s.exit
        /\ out' = s.out
        /\ logged' = (s.logs # <<>>)
        /\ warningsLogged' = Len(SelectSeq(s.logs, LAMBDA what : what = "warning"))
        /\ n' = n + 1
        /\ modelNames' = modelNames \o ModelNamesIn(s.out)
        /\ UNCHANGED <<hasBegun, hasWarned, accumulator, nextId, chunk, told, terminated,
                       firstModel, modelFields>>

\* The transport hands over the response; the function is called once.
Respond == n = 0 /\ \E data \in ResponseEvents : CallNS(data)

NextNS == Respond

SpecNS == Init /\ [][NextNS]_vars

-----------------------------------------------------------------------------
(* What the properties speak of *)

CarriesError(json) == Truthy(json.error)

AllEmptyIdentity(json) ==
    json.id = Str(<<>>) /\ json.object = Str(<<>>) /\ json.model = Str(<<>>)

\* The tool_calls list of the chunk's single choice.
ToolCallsOf(json) ==
    IF Len(json.choices) = 1 /\ Truthy(json.choices[1].delta)
    THEN json.choices[1].delta.tool_calls
    ELSE <<>>

\* The index an entry of a tool_calls list is addressed to, given the array a.
Addressed(a, e) == IF IsAbsent(e.index) THEN Len(a) ELSE e.index.v

ArgumentsAt(a, i) == At(a, i).function.arguments

CallsOf(calls, ops) == SelectSeq(calls, LAMBDA c : c.op \in ops)

\* The array a after the entries toolCalls[i], toolCalls[i + 1], ... are taken one
\* by one: an entry addressed to an index that holds nothing seeds a tool call
\* there, any other appends its fragment to the tool call it is addressed to.
\* With stopAtCreation the entries after the first new tool call are not taken.
RECURSIVE Replayed(_, _, _, _)
Replayed(a, toolCalls, i, stopAtCreation) ==
    IF i > Len(toolCalls) THEN a
    ELSE LET e == toolCalls[i]
             t == Addressed(a, e)
             fragment == OrEmpty(e.function.arguments)
         IN  IF ~Truthy(At(a, t))
             THEN LET b == Store(a, t, ToolCall(<<>>, <<>>, fragment))
                  IN  IF stopAtCreation THEN b ELSE Replayed(b, toolCalls, i + 1, stopAtCreation)
             ELSE Replayed([a EXCEPT ![t + 1].function.arguments = @ \o fragment],
                           toolCalls, i + 1, stopAtCreation)

\* The tool_calls entries the parser's loop is given: none of a chunk that carries
\* an error or is a sentinel.
LoopEntries(json) ==
    IF CarriesError(json) \/ AllEmptyIdentity(json) THEN <<>> ELSE ToolCallsOf(json)

-----------------------------------------------------------------------------
\* C1 as claimed: after every chunk processed without a throw, the arguments of
\* each tool call are its seed followed by every fragment a chunk carried for its
\* index, in arrival order, fragments that follow a creating entry in the same
\* tool_calls list included.  (Stated of the chunks whose tool_calls the loop is
\* given, so that what refutes it is a fragment lost by the loop itself.)
C1_EveryFragmentKept ==
    [][exit' \notin Throws =>
        \A i \in Entries(accumulator'.tool_calls) :
            ArgumentsAt(accumulator'.tool_calls, i)
            = ArgumentsAt(Replayed(accumulator.tool_calls, LoopEntries(chunk'), 1, FALSE), i)]_vars

\* C1 amended: after every chunk processed without a throw, the arguments of each
\* tool call are its seed followed by every fragment carried for its index, in
\* arrival order, by the entries the loop took: those of chunks with no error that
\* are no sentinel, up to the first entry of a list that created a tool call.
C1_ArgumentGrowth ==
    [][exit' \notin Throws =>
        \A i \in Entries(accumulator'.tool_calls) :
            ArgumentsAt(accumulator'.tool_calls, i)
            = ArgumentsAt(Replayed(accumulator.tool_calls, LoopEntries(chunk'), 1, TRUE), i)]_vars

\* A tool call seeded with "x" has then received "x" and "y" from one chunk.
C1_Witness ==
    /\ n = 2
    /\ exit = "end"
    /\ Len(ToolCallsOf(chunk)) = 2
    /\ Len(out) = 2
    /\ Len(accumulator.tool_calls) = 1
    /\ ArgumentsAt(accumulator.tool_calls, 0) = <<"x", "x", "y">>

-----------------------------------------------------------------------------
\* An entry addressed to an existing tool call that gives another id or a name.
Offends(a, e) ==
    /\ ~IsAbsent(e.index)
    /\ Truthy(At(a, e.index.v))
    /\ \/ Truthy(e.id) /\ e.id.s # At(a, e.index.v).id
       \/ Truthy(e.function.name)

\* The place of the first such entry of the list, 0 if it has none.
FirstOffender(a, toolCalls) ==
    IF \E p \in 1..Len(toolCalls) : Offends(a, toolCalls[p])
    THEN CHOOSE p \in 1..Len(toolCalls) :
            /\ Offends(a, toolCalls[p])
            /\ \A q \in 1..(p - 1) : ~Offends(a, toolCalls[q])
    ELSE 0

\* The chunk without the entries of its tool_calls list from place p on.
CutBefore(json, p) == [json EXCEPT !.choices[1].delta.tool_calls = SubSeq(@, 1, p - 1)]

\* The call raised, and did nothing that the chunk cut before place p would not do.
RaisedAt(p) ==
    /\ exit' \in Throws
    /\ \E cut \in {Parse(Running, CutBefore(chunk', p))} :
            accumulator' = cut.accumulator /\ out' = cut.out

\* C2 as claimed: whenever an entry of a chunk's tool_calls list is addressed to
\* an existing tool call and gives a non-empty id other than the recorded one, or
\* a non-empty name, the call raises, and nothing is changed or sent after that
\* entry.  (Stated of the chunks whose tool_calls the loop is given, so that what
\* refutes it is a change the loop itself lets pass.)
C2_EveryChangeRaises ==
    [][LET p == FirstOffender(accumulator.tool_calls, LoopEntries(chunk'))
       IN  p > 0 => RaisedAt(p)]_vars

\* C2 amended: the same, for a chunk that carries no error and is no sentinel, and
\* for an entry that no entry creating a tool call precedes in the list.
C2_WriteOnceDetection ==
    [][LET a == accumulator.tool_calls
           toolCalls == LoopEntries(chunk')
           p == FirstOffender(a, toolCalls)
       IN  (p > 0 /\ \A q \in 1..(p - 1) : Truthy(At(a, Addressed(a, toolCalls[q]))))
           => RaisedAt(p)]_vars

\* A chunk appended a fragment and then raised on the next entry's other id.
C2_Witness ==
    /\ exit = "throw: unexpected tool_call id change"
    /\ Len(ToolCallsOf(chunk)) = 2
    /\ Len(out) = 1
    /\ out[1].op = "appendFunctionToolCallArgsIStr"

-----------------------------------------------------------------------------
\* C3 as claimed: a chunk with no choice or with several raises, except only that
\* a chunk without choices whose usage block has completion_tokens stops without
\* raising.  (Stated of the chunks that get to the usage block and the choice
\* count: those with no error that are no sentinel.)
C3_OnlyCountedUsageStops ==
    (n > 0 /\ Len(chunk.choices) # 1 /\ ~CarriesError(chunk) /\ ~AllEmptyIdentity(chunk)) =>
        (exit \notin Throws <=>
            /\ Len(chunk.choices) = 0
            /\ Truthy(chunk.usage)
            /\ ~IsAbsent(chunk.usage.completion_tokens))

\* C3 amended: a chunk with no choice or with several raises "expected 1
\* completion", except that it stops without raising when it carries an error,
\* when it is a sentinel, or when it has no choice and has a usage block, with
\* completion_tokens or without.
C3_SingleChoice ==
    (n > 0 /\ Len(chunk.choices) # 1) =>
        IF \/ CarriesError(chunk)
           \/ AllEmptyIdentity(chunk)
           \/ Len(chunk.choices) = 0 /\ Truthy(chunk.usage)
        THEN exit \notin Throws
        ELSE exit = "throw: expected 1 completion"

\* A chunk without choices whose usage block has no completion_tokens has stopped
\* the call without a throw.
C3_Witness ==
    /\ n > 0
    /\ Len(chunk.choices) = 0
    /\ Truthy(chunk.usage)
    /\ IsAbsent(chunk.usage.completion_tokens)
    /\ exit = "return: usage only"

-----------------------------------------------------------------------------
\* C4 as claimed: in a session whose chunks all carry a model field, the sink has
\* received setModelName exactly once, with the model of the first chunk; and
\* hasBegun, once set, stays set.
C4_FirstModelField ==
    /\ []((n > 0 /\ modelFields # "some absent") => modelNames = <<firstModel.s>>)
    /\ [][hasBegun => hasBegun']_vars

\* C4 amended: in a session whose chunks all carry a non-empty model field, the
\* sink has received setModelName exactly once, with the model of the first
\* chunk; and hasBegun, once set, stays set.
C4_ModelReportedOnce ==
    /\ []((n > 0 /\ modelFields = "all non-empty") => modelNames = <<firstModel.s>>)
    /\ [][hasBegun => hasBegun']_vars

\* Two chunks with different models: only the first one's was reported.
C4_Witness ==
    /\ n = 2
    /\ modelFields = "all non-empty"
    /\ chunk.model # firstModel
    /\ hasBegun
    /\ modelNames = <<firstModel.s>>
    /\ out # <<>>

-----------------------------------------------------------------------------
\* The setCounters calls made from the primary usage block.
PrimaryCounters(calls) ==
    SelectSeq(calls, LAMBDA c : c.op = "setCounters" /\ DOMAIN c = {"op", "chatIn", "chatOut"})

NotModelName(calls) == SelectSeq(calls, LAMBDA c : c.op # "setModelName")

\* C5 as claimed: a chunk with a usage block makes one setCounters call with
\* chatIn its prompt_tokens and chatOut its completion_tokens, whatever they are;
\* with no choice, nothing is sent after it.  (Stated of the chunks that get to
\* the usage block: those with no error that are no sentinel.)
C5_CountersAsSent ==
    (n > 0 /\ Truthy(chunk.usage) /\ ~CarriesError(chunk) /\ ~AllEmptyIdentity(chunk)) =>
        /\ PrimaryCounters(out)
           = <<[op |-> "setCounters", chatIn |-> chunk.usage.prompt_tokens,
                chatOut |-> chunk.usage.completion_tokens]>>
        /\ Len(chunk.choices) = 0 => NotModelName(out) = PrimaryCounters(out)

\* C5 amended: a chunk with a usage block, no error and not a sentinel, makes one
\* setCounters call with chatOut its completion_tokens and chatIn its
\* prompt_tokens, or -1 when those are 0 or absent; it makes none when the block
\* has no completion_tokens; with no choice, nothing is sent after it.
C5_UsageCounters ==
    (n > 0 /\ Truthy(chunk.usage) /\ ~CarriesError(chunk) /\ ~AllEmptyIdentity(chunk)) =>
        /\ PrimaryCounters(out)
           = IF IsAbsent(chunk.usage.completion_tokens) THEN <<>>
             ELSE <<[op |-> "setCounters",
                     chatIn |-> IF chunk.usage.prompt_tokens \in {Absent, Num(0)}
                                THEN Num(-1) ELSE chunk.usage.prompt_tokens,
                     chatOut |-> chunk.usage.completion_tokens]>>
        /\ Len(chunk.choices) = 0 => NotModelName(out) = PrimaryCounters(out)

\* The final chunk of a stream that reports 0 prompt tokens: chatIn is -1.
C5_Witness ==
    /\ n > 0
    /\ chunk.usage = Usage(Num(0), Num(20))
    /\ Len(chunk.choices) = 0
    /\ out = <<[op |-> "setCounters", chatIn |-> Num(-1), chatOut |-> Num(20)]>>

-----------------------------------------------------------------------------
\* C6: a chunk that carries an error never raises; it makes exactly one
\* setDialectTerminatingIssue call and no appendText, startFunctionToolCall,
\* appendFunctionToolCallArgsIStr or setCounters call, and leaves the accumulator
\* and hasWarned as they were, whatever else it carries.
C6_ErrorPassthrough ==
    [][CarriesError(chunk') =>
        /\ exit' \notin Throws
        /\ Len(CallsOf(out', {"setDialectTerminatingIssue"})) = 1
        /\ CallsOf(out', {"appendText", "startFunctionToolCall",
                          "appendFunctionToolCallArgsIStr", "setCounters"}) = <<>>
        /\ accumulator' = accumulator
        /\ hasWarned' = hasWarned]_vars

\* An error chunk that also carried usage, a warning and tool calls came after a
\* tool call had been created, and no warning had been logged before.
C6_Witness ==
    /\ n = 2
    /\ exit = "return: terminating issue"
    /\ Truthy(chunk.usage)
    /\ Truthy(chunk.warning)
    /\ ToolCallsOf(chunk) # <<>>
    /\ accumulator.tool_calls # <<>>
    /\ ~hasWarned

-----------------------------------------------------------------------------
\* The chunk's single choice has a string delta.content.
HasText(json) ==
    /\ Len(json.choices) = 1
    /\ Truthy(json.choices[1].delta)
    /\ json.choices[1].delta.content.k = "string"

TextOf(json) == json.choices[1].delta.content.s

TextsIn(calls) ==
    LET appended == CallsOf(calls, {"appendText"})
    IN  [i \in 1..Len(appended) |-> appended[i].text]

\* The call appended exactly the chunk's fragment, at the sink and in the content.
TextAppended ==
    /\ TextsIn(out') = <<TextOf(chunk')>>
    /\ accumulator'.content = Str(OrEmpty(accumulator.content) \o TextOf(chunk'))

TextUntouched == TextsIn(out') = <<>> /\ accumulator'.content = accumulator.content

\* C7 as claimed: every chunk whose single choice has a string delta.content,
\* empty or not, makes one appendText call with it and appends it to the
\* accumulator's content, which no other chunk changes (null until the first).
C7_EveryTextAppended ==
    [][IF HasText(chunk') THEN TextAppended ELSE TextUntouched]_vars

\* C7 amended: the same for the chunks that carry no error, are no sentinel and
\* whose single choice has index 0 or none; any other chunk makes no appendText
\* call and leaves the content as it was.
C7_TextConcatenation ==
    [][IF /\ HasText(chunk')
          /\ ~CarriesError(chunk')
          /\ ~AllEmptyIdentity(chunk')
          /\ chunk'.choices[1].index \in {Num(0), Absent}
       THEN TextAppended
       ELSE TextUntouched]_vars

\* "a" then "b": the content is "ab" and the last call sent "b" alone.
C7_Witness ==
    /\ n = 2
    /\ accumulator.content = Str(<<"a", "b">>)
    /\ TextsIn(out) = << <<"b">> >>

-----------------------------------------------------------------------------
\* C8: an entry of the accumulator keeps its index, its id and its name through
\* every call, whether the call returns or throws.
C8_EntryIdentity ==
    [][\A i \in Entries(accumulator.tool_calls) :
        /\ i \in Entries(accumulator'.tool_calls)
        /\ At(accumulator'.tool_calls, i).id = At(accumulator.tool_calls, i).id
        /\ At(accumulator'.tool_calls, i).function.name
           = At(accumulator.tool_calls, i).function.name
        /\ At(accumulator'.tool_calls, i).type = At(accumulator.tool_calls, i).type]_vars

\* A chunk tried to rename tool call "t1" at index 0, which is still "t1", "f".
C8_Witness ==
    /\ exit = "throw: unexpected tool_call name change"
    /\ 0 \in Entries(accumulator.tool_calls)
    /\ At(accumulator.tool_calls, 0).id = <<"t1">>
    /\ At(accumulator.tool_calls, 0).function.name = <<"f">>
    /\ chunk.choices[1].delta.tool_calls[1].function.name = Text("g")

-----------------------------------------------------------------------------
IsPrefix(a, b) == Len(a) <= Len(b) /\ SubSeq(b, 1, Len(a)) = a

\* C9: through every call, also one that throws part-way, the content only grows
\* at its end (and does not go back to null), every entry's arguments only grow
\* at their end, and no index loses its entry.
C9_AppendOnly ==
    [][/\ IsPrefix(OrEmpty(accumulator.content), OrEmpty(accumulator'.content))
       /\ accumulator.content # Null => accumulator'.content # Null
       /\ \A i \in Entries(accumulator.tool_calls) :
            /\ i \in Entries(accumulator'.tool_calls)
            /\ IsPrefix(ArgumentsAt(accumulator.tool_calls, i),
                        ArgumentsAt(accumulator'.tool_calls, i))]_vars

\* A call appended text to earlier text, then threw on a tool call's other id.
C9_Witness ==
    /\ exit = "throw: unexpected tool_call id change"
    /\ TextsIn(out) = << <<"a">> >>
    /\ accumulator.content = Str(<<"a">>)
    /\ Entries(accumulator.tool_calls) # {}

-----------------------------------------------------------------------------
\* C10: a chunk whose id, object and model are all '' and that carries no error
\* makes no sink call, raises nothing and leaves the accumulator and hasBegun as
\* they were, whatever usage, x_groq and choices it carries.
C10_SentinelSkip ==
    [][(AllEmptyIdentity(chunk') /\ ~CarriesError(chunk')) =>
        /\ out' = <<>>
        /\ exit' \notin Throws
        /\ accumulator' = accumulator
        /\ hasBegun' = hasBegun]_vars

\* A sentinel with a usage block and two choices was skipped after text had come.
C10_Witness ==
    /\ n = 2
    /\ exit = "return: sentinel"
    /\ Truthy(chunk.usage)
    /\ Len(chunk.choices) = 2
    /\ accumulator.content # Null
    /\ out = <<>>

-----------------------------------------------------------------------------
\* The setCounters calls made from the x_groq usage envelope.
GroqCounters(calls) ==
    SelectSeq(calls, LAMBDA c : c.op = "setCounters" /\ "chatTimeInner" \in DOMAIN c)

\* The chunk's x_groq envelope was reported in one call: chatIn its prompt_tokens,
\* chatOut its completion_tokens, chatTimeInner its completion_time.
GroqReported ==
    /\ Len(GroqCounters(out)) = 1
    /\ GroqCounters(out)[1].chatIn = chunk.x_groq.usage.prompt_tokens
    /\ GroqCounters(out)[1].chatOut = chunk.x_groq.usage.completion_tokens
    /\ GroqCounters(out)[1].chatTimeInner = chunk.x_groq.usage.completion_time

CarriesGroqUsage(json) == Truthy(json.x_groq) /\ Truthy(json.x_groq.usage)

\* C11 as claimed: every chunk with no error that is no sentinel and carries an
\* x_groq usage envelope makes a setCounters call from that envelope, with or
\* without a primary usage block, also when the call stopped after the primary
\* usage block because the chunk has no choice.
C11_GroqAlwaysReported ==
    (n > 0 /\ CarriesGroqUsage(chunk) /\ ~CarriesError(chunk) /\ ~AllEmptyIdentity(chunk))
        => GroqReported

\* C11 amended: every chunk with no error that is no sentinel and carries an
\* x_groq usage envelope makes a setCounters call from that envelope, with or
\* without a primary usage block, also when the call then raises; except that it
\* makes none when the chunk has a primary usage block and no choice, where the
\* call has stopped before.
C11_GroqUsage ==
    (n > 0 /\ CarriesGroqUsage(chunk) /\ ~CarriesError(chunk) /\ ~AllEmptyIdentity(chunk))
        => IF Truthy(chunk.usage) /\ Len(chunk.choices) = 0
           THEN GroqCounters(out) = <<>> /\ exit = "return: usage only"
           ELSE GroqReported

\* A chunk with both usage forms and a text choice: counters were sent twice, the
\* primary ones first, and 3 tokens in 0.7 s are a rate of 4.29.
C11_Witness ==
    /\ n > 0
    /\ exit = "end"
    /\ chunk.usage = Usage(Num(10), Num(20))
    /\ CarriesGroqUsage(chunk)
    /\ Len(out) = 3
    /\ out[1] = [op |-> "setCounters", chatIn |-> Num(10), chatOut |-> Num(20)]
    /\ out[2] = [op |-> "setCounters", chatIn |-> Num(7), chatOut |-> Num(3),
                 chatOutRate |-> Num(429), chatTimeInner |-> Num(700)]

-----------------------------------------------------------------------------
\* The place of the first entry of the list addressed to an index of the array a
\* that holds no tool call, 0 if there is none.  (The entries before it change
\* neither the length of the array nor which indices hold a tool call.)
FirstCreation(a, toolCalls) ==
    IF \E p \in 1..Len(toolCalls) : ~Truthy(At(a, Addressed(a, toolCalls[p])))
    THEN CHOOSE p \in 1..Len(toolCalls) :
            /\ ~Truthy(At(a, Addressed(a, toolCalls[p])))
            /\ \A q \in 1..(p - 1) : Truthy(At(a, Addressed(a, toolCalls[q])))
    ELSE 0

\* The call did exactly what it does with the chunk cut after place p.
SameAsCutAfter(p) ==
    \E cut \in {Parse(Running, CutBefore(chunk', p + 1))} :
        /\ accumulator' = cut.accumulator
        /\ out' = cut.out
        /\ exit' = cut.exit
        /\ nextId' = cut.nextId

\* C12: a call adds at most one entry to the accumulator's tool calls and makes at
\* most one startFunctionToolCall call; the entries of a tool_calls list that
\* follow the first one addressed to a free index are skipped: whatever they
\* are, the call changes, sends and raises what it would without them.
C12_OneCreationPerChunk ==
    [][/\ Cardinality(Entries(accumulator'.tool_calls) \ Entries(accumulator.tool_calls)) <= 1
       /\ Len(CallsOf(out', {"startFunctionToolCall"})) <= 1
       /\ LET p == FirstCreation(accumulator.tool_calls, LoopEntries(chunk'))
          IN  p > 0 => SameAsCutAfter(p)]_vars

\* A list created tool call "t1" and then named another type, which would raise:
\* the call has ended normally with the one startFunctionToolCall.
C12_Witness ==
    /\ exit = "end"
    /\ Len(ToolCallsOf(chunk)) = 2
    /\ ToolCallsOf(chunk)[2] = OtherType
    /\ Len(out) = 1
    /\ out[1] = StartFunctionToolCall(<<"t1">>, <<"f">>, <<"x">>)
    /\ Cardinality(Entries(accumulator.tool_calls)) = 1

-----------------------------------------------------------------------------
\* C13: a call whose payload is no JSON text, or is the JSON text of something
\* that is no chunk, raises, makes no sink call, logs nothing and leaves hasBegun,
\* hasWarned and the accumulator as they were.
C13_MalformedInput ==
    [][(n' = n + 1 /\ ~Decodes(eventData')) =>
        /\ exit' = IF IsJson(eventData') THEN "throw: invalid chunk"
                   ELSE "throw: malformed event data"
        /\ out' = <<>>
        /\ ~logged'
        /\ hasBegun' = hasBegun
        /\ hasWarned' = hasWarned
        /\ accumulator' = accumulator]_vars

\* After a chunk of text, a JSON object with a model and a warning but a numeric
\* content was refused: no model name was sent, no warning logged.
C13_Witness ==
    /\ n = 2
    /\ exit = "throw: invalid chunk"
    /\ eventData.value.model = Text("m1")
    /\ Truthy(eventData.value.warning)
    /\ accumulator.content = Str(<<"a">>)
    /\ ~hasBegun
    /\ ~hasWarned
    /\ out = <<>>

-----------------------------------------------------------------------------
\* The call made the sink calls it makes for the same chunk without its warning.
SameCallsWithoutWarning ==
    \E plain \in {Parse(Running, [chunk' EXCEPT !.warning = Absent])} : out' = plain.out

\* C14: a session logs at most one warning; a call logs one exactly when its chunk
\* carries a warning and no error and the session has logged none before, and it
\* then sets hasWarned; hasWarned, once set, stays set; and a chunk's warning
\* changes nothing in the sink calls of its call.
C14_WarningLatch ==
    /\ [](warningsLogged <= 1 /\ (hasWarned <=> warningsLogged = 1))
    /\ [][/\ logged' <=> /\ warningsLogged = 0
                         /\ Truthy(chunk'.warning)
                         /\ ~CarriesError(chunk')
          /\ logged' => hasWarned'
          /\ hasWarned => hasWarned'
          /\ SameCallsWithoutWarning]_vars

\* A second chunk with a warning came after the first had been logged: it was
\* not logged again, and its text went to the sink as usual.
C14_Witness ==
    /\ n = 2
    /\ Truthy(chunk.warning)
    /\ ~logged
    /\ hasWarned
    /\ warningsLogged = 1
    /\ out = <<AppendText(<<"a">>)>>

-----------------------------------------------------------------------------
\* The response the non-streaming parser was given has one choice, at index 0,
\* with a message.
OneMessage ==
    /\ n = 1
    /\ IsJson(eventData)
    /\ "choices" \in DOMAIN eventData.value
    /\ Len(eventData.value.choices) = 1
    /\ eventData.value.choices[1].index = Num(0)
    /\ Truthy(eventData.value.choices[1].message)

TheToolCalls == eventData.value.choices[1].message.tool_calls

\* A tool call of the function kind, or of no stated kind.
Accepted(toolCall) == toolCall.type \in {Absent, Str(<<"function">>)}

\* How many tool calls of the list come before the first that is not accepted.
AcceptedFirst(toolCalls) ==
    IF \A i \in 1..Len(toolCalls) : Accepted(toolCalls[i]) THEN Len(toolCalls)
    ELSE (CHOOSE i \in 1..Len(toolCalls) :
            ~Accepted(toolCalls[i]) /\ \A j \in 1..(i - 1) : Accepted(toolCalls[j])) - 1

\* For each of the first m tool calls, in list order: startFunctionToolCall with
\* its id, name and arguments as they are, then endMessagePart.
Announcements(toolCalls, m) ==
    [j \in 1..(2 * m) |->
        IF j % 2 = 1
        THEN LET toolCall == toolCalls[(j + 1) \div 2]
             IN  [op |-> "startFunctionToolCall", id |-> toolCall.id.s,
                  name |-> toolCall.function.name.s, mode |-> "incr_str",
                  args |-> toolCall.function.arguments.s]
        ELSE [op |-> "endMessagePart"]]

ToolCallOps == {"startFunctionToolCall", "appendFunctionToolCallArgsIStr", "endMessagePart"}

\* C15: for a response with one choice at index 0 and a message, the sink calls
\* end with one startFunctionToolCall (id, name and arguments in full) and one
\* endMessagePart per tool call, in list order and with nothing in between, and
\* no other call is a tool-call call; there is no append call.  A tool call of
\* another kind than function raises, after the calls for the tool calls before
\* it; a tool call of no stated kind is accepted, and without a tool call of
\* another kind the call ends normally.
C15_AtomicToolCalls ==
    OneMessage =>
        LET m == AcceptedFirst(TheToolCalls)
        IN  /\ Len(out) >= 2 * m
            /\ SubSeq(out, Len(out) - 2 * m + 1, Len(out)) = Announcements(TheToolCalls, m)
            /\ Len(CallsOf(out, ToolCallOps)) = 2 * m
            /\ exit = IF m < Len(TheToolCalls) THEN "throw: unexpected tool_call type"
                      ELSE "end"

\* A response with text, a typed tool call and an untyped one: after the model
\* name and the text, each tool call was started and closed, in order.
C15_Witness ==
    /\ OneMessage
    /\ exit = "end"
    /\ out = <<SetModelName(<<"m1">>), AppendText(<<"a">>),
               StartFunctionToolCall(<<"t1">>, <<"f">>, <<"x">>), EndMessagePart,
               StartFunctionToolCall(<<"t2">>, <<"g">>, <<"y">>), EndMessagePart>>

-----------------------------------------------------------------------------
\* C16: in every state the sink has been told of exactly the tool calls the
\* accumulator holds, index by index: under the entry's id and no other, and
\* with arguments (the initial ones of startFunctionToolCall, then the fragments
\* of the appendFunctionToolCallArgsIStr calls made for the entry, in call
\* order) that are the entry's arguments.
C16_SinkAgreement ==
    /\ Entries(told) = Entries(accumulator.tool_calls)
    /\ \A i \in Entries(accumulator.tool_calls) :
         /\ At(told, i).args = ArgumentsAt(accumulator.tool_calls, i)
         /\ At(told, i).ids = {At(accumulator.tool_calls, i).id}

\* Tool call "t1" was started with "x" and then given "y": both sides have "xy".
C16_Witness ==
    /\ n = 2
    /\ out = <<AppendFunctionToolCallArgsIStr(<<"t1">>, <<"y">>)>>
    /\ At(told, 0) = SinkToolCall({<<"t1">>}, <<"x", "y">>)
    /\ ArgumentsAt(accumulator.tool_calls, 0) = <<"x", "y">>

-----------------------------------------------------------------------------
\* The indices whose entry has the id.
EntriesWithId(id) ==
    {i \in Entries(accumulator.tool_calls) : At(accumulator.tool_calls, i).id = id}

\* C17: in every state the entries of the accumulator at different indices have
\* different ids, ids given by the provider included, so that the id of every
\* appendFunctionToolCallArgsIStr call is the id of exactly one tool call.
C17_UniqueIds ==
    /\ \A i, j \in Entries(accumulator.tool_calls) :
         i # j => At(accumulator.tool_calls, i).id # At(accumulator.tool_calls, j).id
    /\ \A c \in 1..Len(out) :
         out[c].op = "appendFunctionToolCallArgsIStr"
            => Cardinality(EntriesWithId(out[c].id)) = 1

-----------------------------------------------------------------------------
\* The call has created a tool call at index t of the array from the entry e: an
\* index that held nothing now holds e's name and arguments, and the sink got a
\* startFunctionToolCall with them and with the new entry's id.
CreatedAt(t, e) ==
    /\ ~Truthy(At(accumulator.tool_calls, t))
    /\ Truthy(At(accumulator'.tool_calls, t))
    /\ At(accumulator'.tool_calls, t).function
       = [name |-> OrEmpty(e.function.name), arguments |-> OrEmpty(e.function.arguments)]
    /\ CallsOf(out', {"startFunctionToolCall"})
       = <<StartFunctionToolCall(At(accumulator'.tool_calls, t).id, OrEmpty(e.function.name),
                                 OrEmpty(e.function.arguments))>>

\* A call appends arguments at most once per entry of the chunk's list that
\* carries an index: never for an entry that carries none.
AppendsOnlyIndexed(toolCalls) ==
    Len(CallsOf(out', {"appendFunctionToolCallArgsIStr"}))
    <= Cardinality({p \in 1..Len(toolCalls) : ~IsAbsent(toolCalls[p].index)})

\* The call gets to its loop over the tool_calls list.
LoopRuns(json) ==
    /\ ~CarriesError(json)
    /\ ~AllEmptyIdentity(json)
    /\ Len(json.choices) = 1
    /\ json.choices[1].index \in {Num(0), Absent}
    /\ Truthy(json.choices[1].delta)

\* The loop gets to place p of the list: every entry before it is addressed to a
\* tool call of the array a, is of an accepted type and changes no id or name.
Reached(a, toolCalls, p) ==
    \A q \in 1..(p - 1) :
        /\ Truthy(At(a, Addressed(a, toolCalls[q])))
        /\ Accepted(toolCalls[q])
        /\ ~Offends(a, toolCalls[q])

\* C18 as claimed: an entry that carries no index resolves to the number of tool
\* calls the accumulator holds, an index that holds no entry, and the call
\* creates a tool call there from it, with a startFunctionToolCall; no call
\* appends arguments for such an entry, so that a session without any index
\* never makes an appendFunctionToolCallArgsIStr call.  (Stated of the entries of
\* an accepted type in the chunks whose loop runs, so that what refutes it is an
\* entry the loop itself does not create a tool call from.)
C18_IndexlessAlwaysCreates ==
    [][LET toolCalls == LoopEntries(chunk')
       IN  /\ \A p \in 1..Len(toolCalls) :
                (IsAbsent(toolCalls[p].index) /\ LoopRuns(chunk') /\ Accepted(toolCalls[p]))
                    => CreatedAt(Cardinality(Entries(accumulator.tool_calls)), toolCalls[p])
           /\ AppendsOnlyIndexed(toolCalls)]_vars

\* C18 amended: an entry that carries no index resolves to the length of the
\* accumulator's tool-call array, an index that holds no entry; when the loop
\* gets to the entry and its type is function or not given, the call creates a
\* tool call there from it, with a startFunctionToolCall; no call appends
\* arguments for such an entry, so that a session without any index never makes
\* an appendFunctionToolCallArgsIStr call.
C18_IndexlessCreates ==
    [][LET a == accumulator.tool_calls
           toolCalls == LoopEntries(chunk')
       IN  /\ \A p \in 1..Len(toolCalls) :
                (/\ IsAbsent(toolCalls[p].index)
                 /\ LoopRuns(chunk')
                 /\ Reached(a, toolCalls, p)
                 /\ Accepted(toolCalls[p]))
                    => CreatedAt(Len(a), toolCalls[p])
           /\ AppendsOnlyIndexed(toolCalls)]_vars

\* After a tool call created at index 1, with nothing at index 0, an entry
\* without index has created one at index 2, the length of the array, and not at
\* index 1, the number of tool calls.
C18_Witness ==
    /\ n = 2
    /\ Len(ToolCallsOf(chunk)) = 1
    /\ IsAbsent(ToolCallsOf(chunk)[1].index)
    /\ Entries(accumulator.tool_calls) = {1, 2}
    /\ Len(out) = 1
    /\ out[1].op = "startFunctionToolCall"
    /\ At(told, 2).args = out[1].args

-----------------------------------------------------------------------------
\* C19: once the sink has received setDialectTerminatingIssue, no later call of
\* the session makes an appendText, startFunctionToolCall,
\* appendFunctionToolCallArgsIStr or setCounters call or changes the accumulator.
C19_FinishedAfterError ==
    [][terminated =>
        /\ CallsOf(out', {"appendText", "startFunctionToolCall",
                          "appendFunctionToolCallArgsIStr", "setCounters"}) = <<>>
        /\ accumulator' = accumulator]_vars

====
